---- MODULE Spec2Model ----
(***************************************************************************)
(* Model of src/app.py: a Streamlit script that is re-executed from top to *)
(* bottom on every user interaction.  One action of the model is one       *)
(* interaction followed by one complete execution of the script.           *)
(*                                                                         *)
(* Library behaviour that the script relies on is modelled as follows.     *)
(*  - pandas cells are exact rationals, strings or NaN; floating-point     *)
(*    rounding is not modelled.                                            *)
(*  - df[col].fillna(v, inplace=True) writes through to df (pandas without *)
(*    copy-on-write, the behaviour the script is written for).             *)
(*  - st.button returns True only in the run triggered by clicking it.     *)
(*  - an uncaught exception ends the run; Streamlit shows the exception.   *)
(***************************************************************************)
EXTENDS Integers, Sequences, FiniteSets, TLC

\* ------------------------------------------------------------- bounds
\* Largest number of data rows in an uploaded CSV file with one column.
MaxRows == 4
\* Largest number of data rows in an uploaded CSV file with two columns.
MaxWideRows == 2
\* Largest number of data rows in an uploaded spreadsheet file.
MaxSheetRows == 1

\* ------------------------------------------------------------ options
None == <<>>
Some(x) == <<x>>

\* ------------------------------------------------------------- cells
\* A cell of a DataFrame: NaN, a number num/den in lowest terms, or a string.
NaN == [kind |-> "nan", num |-> 0, den |-> 1, str |-> ""]
Str(s) == [kind |-> "str", num |-> 0, den |-> 1, str |-> s]

Abs(i) == IF i < 0 THEN -i ELSE i

RECURSIVE GCD(_, _)
GCD(a, b) == IF b = 0 THEN a ELSE GCD(b, a % b)

\* The number n/d (d > 0) in lowest terms.
Num(n, d) ==
    LET g == GCD(Abs(n), d)
    IN  [kind |-> "num", num |-> n \div g, den |-> d \div g, str |-> ""]

IsNull(c) == c.kind = "nan"

\* Code points of the characters the model's strings are built from.
Ord(ch) ==
    CASE ch = "." -> 46
      [] ch = "C" -> 67
      [] ch = "S" -> 83
      [] ch = "V" -> 86
      [] ch = "c" -> 99
      [] ch = "d" -> 100
      [] ch = "l" -> 108
      [] ch = "s" -> 115
      [] ch = "t" -> 116
      [] ch = "v" -> 118
      [] ch = "x" -> 120
      [] ch = "y" -> 121

\* The order pandas sorts non-null values of one column by: numbers by value,
\* (single-character) strings by code point.
CellLess(a, b) ==
    IF a.kind = "num" /\ b.kind = "num"
    THEN a.num * b.den < b.num * a.den
    ELSE a.kind = "str" /\ b.kind = "str" /\ Ord(a.str) < Ord(b.str)

RatAdd(a, b) == Num(a.num * b.den + b.num * a.den, a.den * b.den)
RatDiv(a, k) == Num(a.num, a.den * k)

\* ------------------------------------------------------------ series
Range(s) == {s[i] : i \in DOMAIN s}

\* The subsequence of s at the positions in keep, in order.
RECURSIVE Pick(_, _, _)
Pick(s, keep, i) ==
    IF i > Len(s) THEN <<>>
    ELSE (IF i \in keep THEN <<s[i]>> ELSE <<>>) \o Pick(s, keep, i + 1)

NotNull(c) == ~IsNull(c)

\* Series.dropna()
NonNull(s) == SelectSeq(s, NotNull)

RECURSIVE SumSeq(_)
SumSeq(s) == IF s = <<>> THEN Num(0, 1) ELSE RatAdd(s[1], SumSeq(Tail(s)))

\* The values of the set S in ascending order.
RECURSIVE Sorted(_)
Sorted(S) ==
    IF S = {} THEN <<>>
    ELSE LET m == CHOOSE x \in S : \A y \in S : ~CellLess(y, x)
         IN  <<m>> \o Sorted(S \ {m})

\* Series.sort_values() of a series without nulls.
SortValues(s) == SortSeq(s, CellLess)

\* Mean of a series without nulls: NaN when it is empty.
MeanOf(v) == IF v = <<>> THEN NaN ELSE RatDiv(SumSeq(v), Len(v))

\* Median of a sorted series without nulls: the middle value, or the mean of
\* the two middle values; NaN when it is empty.
MedianOf(v) ==
    LET n == Len(v)
    IN  IF n = 0 THEN NaN
        ELSE IF n % 2 = 1 THEN v[(n + 1) \div 2]
        ELSE RatDiv(RatAdd(v[n \div 2], v[n \div 2 + 1]), 2)

\* Variant: the sum of the non-null values divided by the number of rows.
MeanOverAllRows(s) ==
    IF NonNull(s) = <<>> THEN NaN ELSE RatDiv(SumSeq(NonNull(s)), Len(s))

\* Series.mean()
Mean(s) == MeanOf(NonNull(s))

\* Series.median()
Median(s) == MedianOf(SortValues(NonNull(s)))

Count(s, x) == Cardinality({i \in DOMAIN s : s[i] = x})

\* Variant: the values of highest frequency in order of first appearance.
ModeFirstSeen(s) ==
    LET v == NonNull(s)
        top == {x \in Range(v) : \A y \in Range(v) : Count(v, y) <= Count(v, x)}
    IN  Pick(v, {i \in DOMAIN v : v[i] \in top /\ \A k \in 1..(i - 1) : v[k] # v[i]}, 1)

\* Series.mode(): the non-null values of highest frequency, sorted ascending;
\* empty for a series with no non-null value.
Mode(s) ==
    LET v == NonNull(s)
        top == {x \in Range(v) : \A y \in Range(v) : Count(v, y) <= Count(v, x)}
    IN  Sorted(top)


\* --------------------------------------------------------- DataFrame
\* A DataFrame: column names, the dtype of each column, the index label of
\* each row and the rows, each a tuple of cells in column order.
ColIdx(t, c) == CHOOSE j \in DOMAIN t.columns : t.columns[j] = c

Column(t, c) ==
    LET j == ColIdx(t, c)
    IN  [i \in DOMAIN t.rows |-> t.rows[i][j]]

\* The rows (and their index labels) at the positions in keep.
KeepRows(t, keep) ==
    [t EXCEPT !.index = Pick(t.index, keep, 1), !.rows = Pick(t.rows, keep, 1)]

\* df[c].fillna(value, inplace=True)
FillColumn(t, c, value) ==
    LET j == ColIdx(t, c)
    IN  [t EXCEPT !.rows =
            [i \in DOMAIN t.rows |->
                [t.rows[i] EXCEPT ![j] = IF IsNull(@) THEN value ELSE @]]]

\* Variant: rows with a null in any column are dropped.
DropNaAnyColumn(t, c) ==
    KeepRows(t, {i \in DOMAIN t.rows : \A j \in DOMAIN t.columns : ~IsNull(t.rows[i][j])})

\* df.dropna(subset=[c], inplace=True)
DropNa(t, c) ==
    LET j == ColIdx(t, c)
    IN  KeepRows(t, {i \in DOMAIN t.rows : ~IsNull(t.rows[i][j])})

\* Variant: the positions of the rows equal to a later row (keep='last').
DuplicatedKeepLast(t) ==
    {i \in DOMAIN t.rows : \E k \in (i + 1)..Len(t.rows) : t.rows[k] = t.rows[i]}

\* df.duplicated(): the positions of the rows equal to an earlier row.
Duplicated(t) == {i \in DOMAIN t.rows : \E k \in 1..(i - 1) : t.rows[k] = t.rows[i]}

\* df.drop_duplicates(inplace=True)
DropDuplicates(t) == KeepRows(t, DOMAIN t.rows \ Duplicated(t))

\* df.isnull().sum().sum()
TotalNulls(t) ==
    Cardinality({<<i, j>> \in (DOMAIN t.rows) \X (DOMAIN t.columns) : IsNull(t.rows[i][j])})

\* The names of the columns at the positions satisfying a test, in column order.
RECURSIVE ColumnsWhere(_, _, _)
ColumnsWhere(t, ok, j) ==
    IF j > Len(t.columns) THEN <<>>
    ELSE (IF j \in ok THEN <<t.columns[j]>> ELSE <<>>) \o ColumnsWhere(t, ok, j + 1)

\* df.columns[df.isnull().any()].tolist()
MissingCols(t) ==
    ColumnsWhere(t, {j \in DOMAIN t.columns : \E i \in DOMAIN t.rows : IsNull(t.rows[i][j])}, 1)

\* df.select_dtypes(include=kinds).columns.tolist()
SelectDtypes(t, kinds) == ColumnsWhere(t, {j \in DOMAIN t.columns : t.dtypes[j] \in kinds}, 1)

NumericDtypes == {"int64", "float64"}
CategoricalDtypes == {"object", "category"}

Dtype(t, c) == t.dtypes[ColIdx(t, c)]

\* Variant: every column is treated as numeric.
IsNumericAlways(t, c) == TRUE

\* df[c].dtype in ['int64', 'float64']
IsNumeric(t, c) == Dtype(t, c) \in NumericDtypes

\* The dtype the parser infers for a column from its cells.
InferDtype(cells) ==
    IF cells = <<>> \/ \E i \in DOMAIN cells : cells[i].kind = "str" THEN "object"
    ELSE IF \A i \in DOMAIN cells : cells[i].kind = "num" /\ cells[i].den = 1 THEN "int64"
    ELSE "float64"

\* pd.read_csv / pd.read_excel of well-formed content: a RangeIndex and inferred dtypes.
Parse(data) ==
    [columns |-> data.columns,
     dtypes  |-> [j \in DOMAIN data.columns |->
                    InferDtype([i \in DOMAIN data.rows |-> data.rows[i][j]])],
     index   |-> [i \in DOMAIN data.rows |-> i - 1],
     rows    |-> data.rows]

\* ------------------------------------------------------------ loader
\* str.endswith
EndsWith(name, suffix) ==
    /\ Len(suffix) <= Len(name)
    /\ SubSeq(name, Len(name) - Len(suffix) + 1, Len(name)) = suffix

DotCsv == <<".", "c", "s", "v">>
DotXls == <<".", "x", "l", "s">>
DotXlsx == <<".", "x", "l", "s", "x">>

\* load_data(file): the DataFrame or None, and whether st.error was called.
\* A reader raises on content of another format; the handler reports it.
\* A name with neither suffix falls through both branches: None, no report.
load_data(file) ==
    IF EndsWith(file.name, DotCsv)
    THEN IF file.format = "csv"
         THEN [df |-> Some(Parse(file.data)), error |-> FALSE]
         ELSE [df |-> None, error |-> TRUE]
    ELSE IF EndsWith(file.name, DotXls) \/ EndsWith(file.name, DotXlsx)
    THEN IF file.format = "excel"
         THEN [df |-> Some(Parse(file.data)), error |-> FALSE]
         ELSE [df |-> None, error |-> TRUE]
    ELSE [df |-> None, error |-> FALSE]

\* str.lower on one character.
Lower(ch) ==
    CASE ch = "C" -> "c"
      [] ch = "S" -> "s"
      [] ch = "V" -> "v"
      [] OTHER -> ch

\* st.file_uploader(type=["csv", "xls", "xlsx"]): the extension is compared
\* in lower case.
UploaderAccepts(name) ==
    LET low == [i \in DOMAIN name |-> Lower(name[i])]
    IN  EndsWith(low, DotCsv) \/ EndsWith(low, DotXls) \/ EndsWith(low, DotXlsx)

\* -------------------------------------------------------- summarizer
Min2(a, b) == IF a < b THEN a ELSE b

\* Rows shown by df.head().
HeadRows == 5

\* One column of df.describe() for a numeric column.
DescribeNumeric(s) ==
    LET v == SortValues(NonNull(s))
    IN  [count  |-> Len(v),
         mean   |-> MeanOf(v),
         min    |-> IF v = <<>> THEN NaN ELSE v[1],
         median |-> MedianOf(v),
         max    |-> IF v = <<>> THEN NaN ELSE v[Len(v)]]

\* One column of df.describe() for a frame without numeric columns.
DescribeObject(s) ==
    LET v == NonNull(s)
    IN  [count |-> Len(v), unique |-> Cardinality(Range(v))]

\* What sections 1 and 2 of the page display for df: the preview, the shape,
\* df.info() (dtype and non-null count per column) and df.describe() (std and
\* the outer quartiles, top and freq are left out).
Summarize(t) ==
    LET num == SelectDtypes(t, NumericDtypes)
    IN  [head  |-> KeepRows(t, 1..Min2(HeadRows, Len(t.rows))),
         shape |-> <<Len(t.rows), Len(t.columns)>>,
         info  |-> [j \in DOMAIN t.columns |->
                      [column |-> t.columns[j], dtype |-> t.dtypes[j],
                       non_null |-> Len(NonNull(Column(t, t.columns[j])))]],
         describe |->
            IF num # <<>>
            THEN [k \in DOMAIN num |-> DescribeNumeric(Column(t, num[k]))]
            ELSE [k \in DOMAIN t.columns |-> DescribeObject(Column(t, t.columns[k]))]]

\* ------------------------------------------------------------ widgets
\* st.button(label): True only in the run that the click on it triggered.
Button(label, click) == click = label

\* st.selectbox(label, options, index): None without options, else the
\* user's choice when it is one of the options, else options[index].
Selectbox(options, index, want) ==
    IF options = <<>> THEN None
    ELSE IF want # None /\ want[1] \in Range(options) THEN want
    ELSE Some(options[index + 1])

\* Python truth value of a selectbox result (None and "" are false).
Truthy(o) == o # None /\ o[1] # ""

PlotTypes == <<"Histogram", "Bar Chart", "Scatter Plot", "Box Plot">>
FillMethods == <<"Mean", "Median", "Mode", "Drop Rows">>

\* ----------------------------------------------------------- cleaner
\* The "Apply Cleaning" handler on DataFrame t.  mode()[0] of a column
\* without a non-null value raises KeyError, which nothing catches.
ApplyCleaning(t, col, method) ==
    IF method = "Drop Rows"
    THEN [df |-> DropNa(t, col), fill_value |-> None, raised |-> FALSE,
          applied |-> <<"dropna">>]
    ELSE LET s == Column(t, col)
             numeric == IsNumeric(t, col)
             modes == Mode(s)
             useMode == ~numeric \/ method \notin {"Mean", "Median"}
         IN  IF useMode /\ modes = <<>>
             THEN [df |-> t, fill_value |-> None, raised |-> TRUE, applied |-> <<>>]
             ELSE LET v == IF useMode THEN modes[1]
                           ELSE IF method = "Mean" THEN Mean(s) ELSE Median(s)
                  IN  [df |-> FillColumn(t, col, v), fill_value |-> Some(v),
                       raised |-> FALSE, applied |-> <<"fillna">>]

\* -------------------------------------------------------- visualizer
\* Variant: every plot type offers all_columns.
PlotOptionsAllColumns(t, ptype) == t.columns

\* The columns the column selectboxes of a plot type offer.
PlotOptions(t, ptype) ==
    IF ptype = "Bar Chart" THEN SelectDtypes(t, CategoricalDtypes)
    ELSE SelectDtypes(t, NumericDtypes)

\* The values a selectbox over opts can return.
Choices(opts) == IF opts = <<>> THEN {None} ELSE {Some(opts[i]) : i \in DOMAIN opts}

\* Section 4 of the page for DataFrame t: the values the column selectboxes
\* return and the chart passed to st.pyplot, if any.
Visualize(t, ptype, want) ==
    LET num == PlotOptions(t, "Histogram")
        cat == PlotOptions(t, "Bar Chart")
        one(opts, kind) ==
            LET c == Selectbox(opts, 0, want[1])
            IN  [selected_col |-> c, col_x |-> None, col_y |-> None,
                 chart |-> IF Truthy(c) THEN Some([kind |-> kind, cols |-> <<c[1]>>])
                           ELSE None]
    IN  CASE ptype = "Histogram" -> one(num, "histplot")
          [] ptype = "Bar Chart" -> one(cat, "countplot")
          [] ptype = "Box Plot" -> one(num, "boxplot")
          [] ptype = "Scatter Plot" ->
                LET x == Selectbox(num, 0, want[1])
                    y == Selectbox(num, IF Len(num) > 1 THEN 1 ELSE 0, want[2])
                IN  [selected_col |-> None, col_x |-> x, col_y |-> y,
                     chart |-> IF Truthy(x) /\ Truthy(y)
                               THEN Some([kind |-> "scatterplot", cols |-> <<x[1], y[1]>>])
                               ELSE None]

\* ------------------------------------------------------------ script
NoVis == [selected_col |-> None, col_x |-> None, col_y |-> None, chart |-> None]

\* The output of a run that gets no DataFrame.
Blank(file, ld, msgs) ==
    [uploaded_file |-> file, df_loaded |-> ld, df |-> ld, overview |-> None,
     messages |-> msgs, buttons |-> {}, sections |-> {}, applied |-> <<>>,
     fill_value |-> None, raised |-> FALSE, vis |-> NoVis]

\* One execution of the script: file is the uploader's value, click the
\* button that triggered the run (or ""), col and method the values of the
\* cleaning widgets, ptype and want the values of the plot widgets.
Script(file, click, col, method, ptype, want) ==
    IF file = None
    THEN Blank(file, None, {"Upload a file in the sidebar to get started."})
    ELSE
    LET ld == load_data(file[1])
    IN  IF ld.df = None
        THEN Blank(file, None, IF ld.error THEN {"Error reading file"} ELSE {})
        ELSE
        LET df0 == ld.df[1]
            hasNulls == TotalNulls(df0) > 0
            doClean == hasNulls /\ Button("Apply Cleaning", click)
            cl == IF doClean THEN ApplyCleaning(df0, col, method)
                  ELSE [df |-> df0, fill_value |-> None, raised |-> FALSE,
                        applied |-> <<>>]
            df1 == cl.df
            msg1 == {"File successfully uploaded and loaded!"}
                      \cup (IF ~hasNulls THEN {"No missing values found in the dataset."}
                            ELSE IF doClean /\ ~cl.raised THEN {"Cleaned column"}
                            ELSE {})
            but1 == IF hasNulls THEN {"Apply Cleaning"} ELSE {}
        IN  IF cl.raised
            THEN [uploaded_file |-> file, df_loaded |-> ld.df, df |-> Some(df1),
                  overview |-> Some(Summarize(df0)),
                  messages |-> msg1 \cup {"KeyError"}, buttons |-> but1,
                  sections |-> {"overview", "cleaning"}, applied |-> <<>>,
                  fill_value |-> None, raised |-> TRUE, vis |-> NoVis]
            ELSE
            LET hasDups == Cardinality(Duplicated(df1)) > 0
                doDedup == hasDups /\ Button("Remove Duplicate Rows", click)
                df2 == IF doDedup THEN DropDuplicates(df1) ELSE df1
                msg2 == IF ~hasDups THEN {"No duplicate rows found."}
                        ELSE {"Found duplicate rows."}
                               \cup (IF doDedup THEN {"Duplicate rows removed."} ELSE {})
            IN  [uploaded_file |-> file, df_loaded |-> ld.df, df |-> Some(df2),
                 overview |-> Some(Summarize(df0)),
                 messages |-> msg1 \cup msg2,
                 buttons |-> but1 \cup (IF hasDups THEN {"Remove Duplicate Rows"} ELSE {}),
                 sections |-> {"overview", "cleaning", "duplicates", "visualization"},
                 applied |-> cl.applied \o (IF doDedup THEN <<"drop_duplicates">> ELSE <<>>),
                 fill_value |-> cl.fill_value, raised |-> FALSE,
                 vis |-> Visualize(df2, ptype, want)]

\* ------------------------------------------------------------ inputs
NumCells == {NaN, Num(1, 1), Num(2, 1)}
TextCells == {NaN, Str("x"), Str("y")}

\* Column layouts of the uploaded files and the cells a row of each can hold.
Schemas == {<<"age", "city">>, <<"age">>, <<"city">>}
CellsOf(c) == IF c = "age" THEN NumCells ELSE TextCells
RowsOf(sch) == {r \in [DOMAIN sch -> NumCells \cup TextCells] :
                    \A j \in DOMAIN sch : r[j] \in CellsOf(sch[j])}

\* File contents with at most n data rows in a one-column file and at most
\* w in a two-column file.
Contents(n, w) ==
    UNION {{[columns |-> sch, rows |-> r] :
                r \in UNION {[1..k -> RowsOf(sch)] :
                                k \in 0..(IF Len(sch) = 1 THEN n ELSE w)}} :
           sch \in Schemas}

OneRow == [columns |-> <<"age", "city">>, rows |-> << <<Num(1, 1), Str("x")>> >>]

Files ==
    {[name |-> <<"d", ".", "c", "s", "v">>, format |-> "csv", data |-> d] :
        d \in Contents(MaxRows, MaxWideRows)}
    \cup {[name |-> n, format |-> "excel", data |-> d] :
            n \in {<<"d", ".", "x", "l", "s">>, <<"d", ".", "x", "l", "s", "x">>},
            d \in Contents(MaxSheetRows, MaxSheetRows)}
    \cup {[name |-> n, format |-> f, data |-> OneRow] :
            n \in {<<"d", ".", "c", "s", "v">>, <<"d", ".", "x", "l", "s", "x">>,
                   <<"d", ".", "C", "S", "V">>, <<"d", ".", "t", "x", "t">>},
            f \in {"csv", "excel"}}

\* ------------------------------------------------------------- state
VARIABLES
    uploaded_file,         \* value of st.file_uploader: None or Some(file)
    df_loaded,             \* df as load_data returned it in the last run
    df,                    \* df at the end of the last run
    overview,              \* what sections 1 and 2 displayed in the last run
    messages,              \* st.success / st.info / st.error texts and exceptions shown
    buttons,               \* buttons the last run rendered
    sections,              \* page sections the last run rendered
    clicked,               \* button whose click triggered the last run, or ""
    selected_col_missing,  \* cleaning column the handler used in the last run
    fill_method,           \* cleaning method the handler used in the last run
    fill_value,            \* fill_value the handler computed in the last run
    applied,               \* DataFrame mutations the last run performed
    raised,                \* the last run ended in an uncaught exception
    plot_type,             \* value of the plot type selectbox
    selected_col,          \* value of the single column selectbox
    col_x,                 \* value of the X-axis selectbox
    col_y,                 \* value of the Y-axis selectbox
    chart                  \* chart passed to st.pyplot in the last run

vars == <<uploaded_file, df_loaded, df, overview, messages, buttons, sections,
          clicked, selected_col_missing, fill_method, fill_value, applied, raised,
          plot_type, selected_col, col_x, col_y, chart>>

\* The values a run leaves in the variables, in the order of vars.  Widgets
\* that a run does not render lose their value.
View(out, click, col, method, ptype) ==
    <<out.uploaded_file, out.df_loaded, out.df, out.overview, out.messages,
      out.buttons, out.sections, click,
      IF click = "Apply Cleaning" THEN Some(col) ELSE None,
      IF click = "Apply Cleaning" THEN Some(method) ELSE None,
      out.fill_value, out.applied, out.raised,
      IF "visualization" \in out.sections THEN ptype ELSE PlotTypes[1],
      out.vis.selected_col, out.vis.col_x, out.vis.col_y, out.vis.chart>>

\* The interaction reruns the script and the page shows its output.
Run(file, click, col, method, ptype, want) ==
    \E v \in {View(Script(file, click, col, method, ptype, want),
                   click, col, method, ptype)} :
        /\ uploaded_file' = v[1]
        /\ df_loaded' = v[2]
        /\ df' = v[3]
        /\ overview' = v[4]
        /\ messages' = v[5]
        /\ buttons' = v[6]
        /\ sections' = v[7]
        /\ clicked' = v[8]
        /\ selected_col_missing' = v[9]
        /\ fill_method' = v[10]
        /\ fill_value' = v[11]
        /\ applied' = v[12]
        /\ raised' = v[13]
        /\ plot_type' = v[14]
        /\ selected_col' = v[15]
        /\ col_x' = v[16]
        /\ col_y' = v[17]
        /\ chart' = v[18]

\* The plot column choices the widgets currently hold.
Want == IF plot_type = "Scatter Plot" THEN <<col_x, col_y>> ELSE <<selected_col, None>>

\* The first run of a session: no file has been uploaded.
Init ==
    LET v == View(Script(None, "", "", "", PlotTypes[1], <<None, None>>),
                  "", "", "", PlotTypes[1])
    IN  /\ uploaded_file = v[1]
        /\ df_loaded = v[2]
        /\ df = v[3]
        /\ overview = v[4]
        /\ messages = v[5]
        /\ buttons = v[6]
        /\ sections = v[7]
        /\ clicked = v[8]
        /\ selected_col_missing = v[9]
        /\ fill_method = v[10]
        /\ fill_value = v[11]
        /\ applied = v[12]
        /\ raised = v[13]
        /\ plot_type = v[14]
        /\ selected_col = v[15]
        /\ col_x = v[16]
        /\ col_y = v[17]
        /\ chart = v[18]

\* The user uploads a file that the uploader accepts.
Upload(f) ==
    /\ uploaded_file = None
    /\ UploaderAccepts(f.name)
    /\ Run(Some(f), "", "", "", PlotTypes[1], <<None, None>>)

\* The user removes the uploaded file.
ClearFile ==
    /\ uploaded_file # None
    /\ Run(None, "", "", "", PlotTypes[1], <<None, None>>)

\* The user picks a column and a method and clicks "Apply Cleaning".
ClickApplyCleaning(col, method) ==
    /\ "Apply Cleaning" \in buttons
    /\ col \in Range(MissingCols(df_loaded[1]))
    /\ Run(uploaded_file, "Apply Cleaning", col, method, plot_type, Want)

\* The user clicks "Remove Duplicate Rows".
ClickRemoveDuplicateRows ==
    /\ "Remove Duplicate Rows" \in buttons
    /\ Run(uploaded_file, "Remove Duplicate Rows", "", "", plot_type, Want)

\* The user changes a cleaning widget without clicking a button.
ChangeCleaningWidget ==
    /\ "Apply Cleaning" \in buttons
    /\ Run(uploaded_file, "", "", "", plot_type, Want)

\* The user changes the plot type or a plot column.
ChangeVisualization(ptype, want) ==
    /\ "visualization" \in sections
    /\ want[1] \in Choices(PlotOptions(df[1], ptype))
    /\ want[2] \in (IF ptype = "Scatter Plot" THEN Choices(PlotOptions(df[1], ptype))
                    ELSE {None})
    /\ Run(uploaded_file, "", "", "", ptype, want)

Next ==
    \/ uploaded_file = None /\ \E f \in Files : Upload(f)
    \/ ClearFile
    \/ \E col \in {"age", "city"}, m \in Range(FillMethods) : ClickApplyCleaning(col, m)
    \/ ClickRemoveDuplicateRows
    \/ ChangeCleaningWidget
    \/ \E p \in Range(PlotTypes), x, y \in {None, Some("age"), Some("city")} :
          ChangeVisualization(p, <<x, y>>)

Spec == Init /\ [][Next]_vars

\* ============================================================ claims
Loaded == df_loaded[1]
Now == df[1]
Cleaned == clicked = "Apply Cleaning"
CleanCol == selected_col_missing[1]
Before == Column(Loaded, CleanCol)
After == Column(Now, CleanCol)

\* The column the last run cleaned is not of a numeric dtype.
Categorical == Dtype(Loaded, CleanCol) \notin NumericDtypes

\* Row i of the loaded table is still in the table, with its cells unchanged.
Kept(i) == \E k \in DOMAIN Now.rows :
                Now.index[k] = Loaded.index[i] /\ Now.rows[k] = Loaded.rows[i]

\* The table holds only rows of the loaded table, each once, in their order.
InOrder ==
    /\ Now.columns = Loaded.columns
    /\ Now.dtypes = Loaded.dtypes
    /\ \A k \in DOMAIN Now.rows : \E i \in DOMAIN Loaded.rows :
            Now.index[k] = Loaded.index[i] /\ Now.rows[k] = Loaded.rows[i]
    /\ \A k, l \in DOMAIN Now.rows : k < l => Now.index[k] < Now.index[l]

RECURSIVE ProdDen(_)
ProdDen(v) == IF v = <<>> THEN 1 ELSE v[1].den * ProdDen(Tail(v))

RECURSIVE ScaledSum(_, _)
ScaledSum(v, d) ==
    IF v = <<>> THEN 0 ELSE v[1].num * (d \div v[1].den) + ScaledSum(Tail(v), d)

\* m is the arithmetic mean of the numbers in v.
IsMeanOf(m, v) ==
    /\ m.kind = "num"
    /\ m.num * ProdDen(v) * Len(v) = ScaledSum(v, ProdDen(v)) * m.den

\* x is a value of highest frequency among the non-null cells of s.
MostFrequent(x, s) ==
    /\ ~IsNull(x)
    /\ \E i \in DOMAIN s : s[i] = x
    /\ \A y \in Range(s) : ~IsNull(y) => Count(s, y) <= Count(s, x)

\* C1: after Mean is applied to a numeric column with at least one null and
\* at least one non-null cell, the column has no null, every cell that was
\* non-null is unchanged and every cell that was null holds the arithmetic
\* mean of the values that were non-null.
C1_MeanFill ==
    (/\ Cleaned
     /\ fill_method = Some("Mean")
     /\ ~Categorical
     /\ NonNull(Before) # <<>>)
    => /\ Len(After) = Len(Before)
       /\ \A i \in DOMAIN Before :
            /\ ~IsNull(After[i])
            /\ ~IsNull(Before[i]) => After[i] = Before[i]
            /\ IsNull(Before[i]) => IsMeanOf(After[i], NonNull(Before))

\* C1 witness: age = [1, NaN, 2] became [1, 3/2, 2].
C1_Witness ==
    /\ Cleaned
    /\ fill_method = Some("Mean")
    /\ Loaded.columns = <<"age">>
    /\ Before = <<Num(1, 1), NaN, Num(2, 1)>>
    /\ After = <<Num(1, 1), Num(3, 2), Num(2, 1)>>

\* C2 (as claimed): an interaction that keeps the uploaded file starts from
\* the table the previous interaction left, so cleaning accumulates.
C2_TablePersists ==
    [][(uploaded_file # None /\ uploaded_file' = uploaded_file /\ df # None)
        => df_loaded' = df]_vars

\* C3 (as claimed): the overview on the page is the summary of the table as
\* the interaction left it.
C3_OverviewCurrent == df # None => overview = Some(Summarize(Now))

\* C4 (as claimed): whatever method is requested on a categorical column,
\* every null cell of the column is filled with a most frequent category
\* and nothing else changes.
C4_AlwaysMode ==
    (Cleaned /\ Categorical)
    => /\ Len(After) = Len(Before)
       /\ \A i \in DOMAIN Before :
            After[i] = IF IsNull(Before[i]) THEN fill_value[1] ELSE Before[i]
       /\ fill_value # None /\ MostFrequent(fill_value[1], Before)

\* C4 (amended): Mean, Median and Mode requested on a categorical column all
\* fill every null cell of the column with a most frequent category; Drop
\* Rows computes no fill value and removes the rows whose cell is null.
C4_ModeUnlessDropRows ==
    (Cleaned /\ Categorical)
    => IF fill_method = Some("Drop Rows")
       THEN /\ fill_value = None
            /\ Len(After) = Len(NonNull(Before))
            /\ \A i \in DOMAIN After : ~IsNull(After[i])
       ELSE /\ fill_value # None /\ MostFrequent(fill_value[1], Before)
            /\ Len(After) = Len(Before)
            /\ \A i \in DOMAIN Before :
                 After[i] = IF IsNull(Before[i]) THEN fill_value[1] ELSE Before[i]

\* C4 witness: Mean requested on city = [NaN, "y"] filled the null with "y".
C4_Witness ==
    /\ Cleaned
    /\ fill_method = Some("Mean")
    /\ CleanCol = "city"
    /\ Categorical
    /\ Before = <<NaN, Str("y")>>
    /\ After = <<Str("y"), Str("y")>>

\* The fill value of the last run came from mode()[0].
UsedMode ==
    /\ Cleaned
    /\ fill_value # None
    /\ fill_method = Some("Mode") \/ Categorical

\* C5 (as claimed): the Mode fill value is a most frequent non-null value,
\* and among equally frequent values the one met first in row order.
C5_FirstEncountered ==
    UsedMode
    => /\ MostFrequent(fill_value[1], Before)
       /\ \E i \in DOMAIN Before :
            /\ Before[i] = fill_value[1]
            /\ \A k \in 1..(i - 1) : ~MostFrequent(Before[k], Before)

\* C5 (amended): the Mode fill value is a most frequent non-null value, and
\* among equally frequent values the smallest one in sort order.
C5_SmallestMostFrequent ==
    UsedMode
    => /\ MostFrequent(fill_value[1], Before)
       /\ \A i \in DOMAIN Before :
            MostFrequent(Before[i], Before) => ~CellLess(Before[i], fill_value[1])

\* C5 witness: Mode on city = ["y", "x", NaN] chose "x".
C5_Witness ==
    /\ UsedMode
    /\ fill_method = Some("Mode")
    /\ Before = <<Str("y"), Str("x"), NaN>>
    /\ fill_value = Some(Str("x"))

\* C6: a click on Remove Duplicate Rows keeps exactly the rows that equal no
\* earlier row, unchanged and in their order; a table without duplicate rows
\* is left as it is.
C6_DropDuplicates ==
    clicked = "Remove Duplicate Rows"
    => /\ InOrder
       /\ \A i \in DOMAIN Loaded.rows :
            Kept(i) <=> ~\E e \in 1..(i - 1) : Loaded.rows[e] = Loaded.rows[i]
       /\ (\A i, e \in DOMAIN Loaded.rows : Loaded.rows[e] = Loaded.rows[i] => e = i)
            => df = df_loaded

\* C6 witness: rows [1, 2, 1, 2] became [1, 2], those labelled 0 and 1.
C6_Witness ==
    /\ clicked = "Remove Duplicate Rows"
    /\ applied = <<"drop_duplicates">>
    /\ Loaded.rows = << <<Num(1, 1)>>, <<Num(2, 1)>>, <<Num(1, 1)>>, <<Num(2, 1)>> >>
    /\ Now.rows = << <<Num(1, 1)>>, <<Num(2, 1)>> >>
    /\ Now.index = <<0, 1>>

ErrorsShown == messages \cap {"Error reading file", "KeyError", "VisualizationError"}
NumericPlots == {"Histogram", "Scatter Plot", "Box Plot"}
NoNumericColumns == \A j \in DOMAIN Now.dtypes : Now.dtypes[j] \notin NumericDtypes
HasCategorical == \E j \in DOMAIN Now.dtypes : Now.dtypes[j] \in CategoricalDtypes
VisShown == df # None /\ "visualization" \in sections

C8_LoadErrorReported ==
    uploaded_file # None
    => /\ df # None => (EndsWith(uploaded_file[1].name, DotCsv)
                            <=> uploaded_file[1].format = "csv")
       /\ df = None => "Error reading file" \in messages

\* The cleaning request of the last run has no defined result: a fill that
\* takes the mode of a column without a non-null value.
Undefined ==
    /\ Cleaned
    /\ fill_method # Some("Drop Rows")
    /\ fill_method = Some("Mode") \/ Categorical
    /\ NonNull(Before) = <<>>

\* C9 (as claimed): a cleaning request without a defined result shows an
\* error, leaves the table unchanged, and the duplicates and visualization
\* sections still run.
C9_InvalidRequestRecovered ==
    Undefined
    => /\ ErrorsShown # {}
       /\ df = df_loaded
       /\ {"duplicates", "visualization"} \subseteq sections

\* C10: a fill keeps the rows, their order, every other column and every
\* non-null cell of the column; Drop Rows keeps exactly the rows whose cell
\* is non-null, unchanged and in order; a run that raises changes nothing;
\* and no run performs more than one cleaning action.
C10_Frame ==
    /\ Len(applied) <= 1
    /\ (Cleaned /\ raised) => df = df_loaded
    /\ (Cleaned /\ ~raised)
        => IF fill_method = Some("Drop Rows")
           THEN /\ InOrder
                /\ \A i \in DOMAIN Loaded.rows : Kept(i) <=> ~IsNull(Before[i])
           ELSE /\ Now.columns = Loaded.columns
                /\ Now.dtypes = Loaded.dtypes
                /\ Now.index = Loaded.index
                /\ Len(Now.rows) = Len(Loaded.rows)
                /\ \A i \in DOMAIN Loaded.rows : \A j \in DOMAIN Loaded.columns :
                     (Loaded.columns[j] # CleanCol \/ ~IsNull(Loaded.rows[i][j]))
                        => Now.rows[i][j] = Loaded.rows[i][j]

\* C10 witness: Drop Rows on age removed the one row whose age is null and
\* kept a row whose city is null.
C10_Witness ==
    /\ Cleaned
    /\ fill_method = Some("Drop Rows")
    /\ CleanCol = "age"
    /\ Loaded.rows = << <<NaN, Str("x")>>, <<Num(1, 1), NaN>> >>
    /\ Now.rows = << <<Num(1, 1), NaN>> >>
    /\ Now.index = <<1>>
====
